---------------------------- MODULE Spec2Model ----------------------------
(***************************************************************************)
(* A model of svelte-translate-pro (src/src/lib/index.ts): the three       *)
(* writable stores, loadTranslation, setActiveLanguage,                    *)
(* setPageSpecificTranslations, the derived store t$ and the resolver      *)
(* getTranslation.                                                         *)
(*                                                                         *)
(* JavaScript values are tagged records.  A string is the sequence of its  *)
(* characters, so that split("."), property names and placeholder tokens   *)
(* are computed and not assumed.  An object is the sequence of its own     *)
(* properties in insertion order.                                          *)
(***************************************************************************)
EXTENDS Naturals, Sequences, FiniteSets, TLC

(***************************************************************************)
(* JavaScript values                                                       *)
(***************************************************************************)
Undef == [tag |-> "undefined"]

Null == [tag |-> "null"]

Str(s) == [tag |-> "string", s |-> s]

Num(n) == [tag |-> "number", n |-> n]

\* A built-in function object, as found on the prototypes.
Fn(name, arity) == [tag |-> "function", name |-> name, arity |-> arity]

\* An object literal: props is <<[k |-> name, v |-> value], ...>> in insertion order.
Obj(props) == [tag |-> "object", props |-> props]

P(k, v) == [k |-> k, v |-> v]

EmptyObj == Obj(<<>>)

\* ToBoolean, as used by `x ? :`, `!x` and `a || b`.
Truthy(v) ==
    CASE v.tag = "undefined" -> FALSE
      [] v.tag = "null"      -> FALSE
      [] v.tag = "string"    -> v.s # <<>>
      [] v.tag = "number"    -> v.n # 0
      [] OTHER               -> TRUE

\* a || b
Or(a, b) == IF Truthy(a) THEN a ELSE b

(***************************************************************************)
(* Strings used by the model, as character sequences                       *)
(***************************************************************************)
S_constructor == <<"c","o","n","s","t","r","u","c","t","o","r">>

S_toString == <<"t","o","S","t","r","i","n","g">>

S_valueOf == <<"v","a","l","u","e","O","f">>

S_length == <<"l","e","n","g","t","h">>

S_name == <<"n","a","m","e">>

S_default == <<"d","e","f","a","u","l","t">>

S_Object == <<"O","b","j","e","c","t">>

S_String == <<"S","t","r","i","n","g">>

S_Number == <<"N","u","m","b","e","r">>

S_Function == <<"F","u","n","c","t","i","o","n">>

S_undefined == <<"u","n","d","e","f","i","n","e","d">>

S_null == <<"n","u","l","l">>

Digits == <<"0","1","2","3","4","5","6","7","8","9">>

IsDigit(c) == \E i \in 1..10 : Digits[i] = c

DigitVal(c) == (CHOOSE i \in 1..10 : Digits[i] = c) - 1

\* The value of a canonical array index ("0", "7", "12"; not "", "01", "x").
IsIndex(k) ==
    /\ k # <<>>
    /\ \A i \in 1..Len(k) : IsDigit(k[i])
    /\ (Len(k) > 1 => k[1] # "0")

RECURSIVE IndexVal(_)
IndexVal(k) ==
    IF k = <<>> THEN 0
    ELSE 10 * IndexVal(SubSeq(k, 1, Len(k) - 1)) + DigitVal(k[Len(k)])

\* Number -> decimal string (non-negative integers).
RECURSIVE NumToString(_)
NumToString(n) ==
    IF n < 10 THEN <<Digits[n + 1]>>
    ELSE NumToString(n \div 10) \o <<Digits[(n % 10) + 1]>>

(***************************************************************************)
(* Property access obj[k]                                                  *)
(***************************************************************************)
HasOwn(o, k) == \E i \in 1..Len(o.props) : o.props[i].k = k

GetOwn(o, k) == o.props[CHOOSE i \in 1..Len(o.props) : o.props[i].k = k].v

\* Properties every object, string, number and function inherits.  The real
\* prototypes hold more names; these three are on all four of them.
ProtoGet(ctor, k) ==
    CASE k = S_constructor -> Fn(ctor, 1)
      [] k = S_toString    -> Fn(S_toString, IF ctor = S_Number THEN 1 ELSE 0)
      [] k = S_valueOf     -> Fn(S_valueOf, 0)
      [] OTHER             -> Undef

\* obj[k] for a value that is not null or undefined.
Get(obj, k) ==
    CASE obj.tag = "object" ->
             IF HasOwn(obj, k) THEN GetOwn(obj, k) ELSE ProtoGet(S_Object, k)
      [] obj.tag = "string" ->
             IF k = S_length THEN Num(Len(obj.s))
             ELSE IF IsIndex(k) /\ IndexVal(k) < Len(obj.s)
                  THEN Str(<<obj.s[IndexVal(k) + 1]>>)
             ELSE ProtoGet(S_String, k)
      [] obj.tag = "number" -> ProtoGet(S_Number, k)
      [] obj.tag = "function" ->
             IF k = S_length THEN Num(obj.arity)
             ELSE IF k = S_name THEN Str(obj.name)
             ELSE ProtoGet(S_Function, k)
      [] OTHER -> Undef

\* { ...o, [k]: v }: an existing key keeps its place, a new one is appended.
ObjSet(o, k, v) ==
    IF HasOwn(o, k)
    THEN Obj([i \in 1..Len(o.props) |->
                 IF o.props[i].k = k THEN P(k, v) ELSE o.props[i]])
    ELSE Obj(Append(o.props, P(k, v)))

\* Object.values(o)[0]
FirstValue(o) == IF o.props = <<>> THEN Undef ELSE o.props[1].v


(***************************************************************************)
(* The language registry                                                   *)
(***************************************************************************)
EN == <<"e","n">>

FA == <<"f","a">>

FR == <<"f","r">>

\* The members of AppLanguages the model draws from.
Languages == {EN, FA, FR}

DEFAULT_LANGUAGE == EN

(***************************************************************************)
(* The resolver                                                            *)
(***************************************************************************)
\* s.split("."): "" gives [""], "a." gives ["a", ""].
RECURSIVE SplitFrom(_, _, _)
SplitFrom(s, i, cur) ==
    IF i > Len(s) THEN <<cur>>
    ELSE IF s[i] = "." THEN <<cur>> \o SplitFrom(s, i + 1, <<>>)
    ELSE SplitFrom(s, i + 1, Append(cur, s[i]))

\* Mutant of Split: the key is looked up whole, as one flat property name.
Split_Whole(s) == <<s>>

Split(s) == SplitFrom(s, 1, <<>>)

\* The reducer (obj, k) => (obj && obj[k] ? obj[k] : undefined).
ReduceStep(obj, k) ==
    IF Truthy(obj) /\ Truthy(Get(obj, k)) THEN Get(obj, k) ELSE Undef

\* keys.reduce(ReduceStep, init)
RECURSIVE Reduce(_, _)
Reduce(keys, init) ==
    IF keys = <<>> THEN init
    ELSE Reduce(Tail(keys), ReduceStep(init, Head(keys)))

\* o[language] || o[DEFAULT_LANGUAGE] || Object.values(o)[0] || ""
Localize(o, language) ==
    Or(Or(Or(Get(o, language), Get(o, DEFAULT_LANGUAGE)), FirstValue(o)), Str(<<>>))

\* String(v), also the conversion replace() applies to its replacement.
ToStringJS(v) ==
    CASE v.tag = "string"    -> v.s
      [] v.tag = "number"    -> NumToString(v.n)
      [] v.tag = "undefined" -> S_undefined
      [] v.tag = "null"      -> S_null
      [] OTHER               -> <<"[","o","b","j","e","c","t"," ">> \o S_Object \o <<"]">>

\* The source of the pattern new RegExp(`{{${varKey}}}`, "g").  For a name made
\* of letters the pattern matches exactly this text.
Token(varKey) == <<"{","{">> \o varKey \o <<"}","}">>

\* Whether tok occurs in s at position i.
MatchAt(s, tok, i) ==
    /\ i + Len(tok) - 1 <= Len(s)
    /\ SubSeq(s, i, i + Len(tok) - 1) = tok

\* What replace() inserts for the match of n characters at position i of s: the
\* replacement string with its patterns expanded ($$ is "$", $& the match, $' the
\* text after it; the pattern has no capture group, so $1 and the like stay as
\* written). The fourth pattern, "$" followed by a grave accent (the text before
\* the match), needs a character that cannot be written in a string here, so no
\* value of this model contains it.
RECURSIVE Substitution(_, _, _, _)
Substitution(repl, s, i, n) ==
    IF repl = <<>> THEN <<>>
    ELSE IF repl[1] = "$" /\ Len(repl) >= 2 /\ repl[2] \in {"$", "&", "'"}
         THEN (CASE repl[2] = "$" -> <<"$">>
                 [] repl[2] = "&" -> SubSeq(s, i, i + n - 1)
                 [] OTHER         -> SubSeq(s, i + n, Len(s)))
              \o Substitution(SubSeq(repl, 3, Len(repl)), s, i, n)
    ELSE <<repl[1]>> \o Substitution(Tail(repl), s, i, n)

\* s.replace(/tok/g, repl): every non-overlapping match, left to right.
RECURSIVE ReplaceFrom(_, _, _, _)
ReplaceFrom(s, tok, repl, i) ==
    IF i > Len(s) THEN <<>>
    ELSE IF MatchAt(s, tok, i)
         THEN Substitution(repl, s, i, Len(tok)) \o ReplaceFrom(s, tok, repl, i + Len(tok))
    ELSE <<s[i]>> \o ReplaceFrom(s, tok, repl, i + 1)

ReplaceAll(s, tok, repl) == ReplaceFrom(s, tok, repl, 1)

\* The value substituted for one variable.
LocalizedValue(value, language) ==
    IF value.tag = "object" THEN Localize(value, language)
    ELSE Str(ToStringJS(value))

\* One pass of the forEach body.  acc is [thrown, translation]; a value that is
\* not a string has no replace method, and calling it is a TypeError.
InterpolateStep(acc, varKey, value, language) ==
    IF acc.thrown THEN acc
    ELSE IF acc.translation.tag \in {"undefined", "null"} THEN acc
    ELSE IF acc.translation.tag # "string"
         THEN [thrown |-> TRUE, translation |-> acc.translation]
    ELSE [thrown |-> FALSE,
          translation |-> Str(ReplaceAll(acc.translation.s, Token(varKey),
                                ToStringJS(LocalizedValue(value, language))))]

\* Object.keys(variables).forEach(...), from the i-th variable on.
RECURSIVE Interpolate(_, _, _, _)
Interpolate(acc, variables, language, i) ==
    IF i > Len(variables.props) THEN acc
    ELSE Interpolate(InterpolateStep(acc, variables.props[i].k,
                                     variables.props[i].v, language),
                     variables, language, i + 1)

Returned(v, w) == [kind |-> "return", value |-> v, warnings |-> w]

Thrown(e, w) == [kind |-> "throw", value |-> Str(e), warnings |-> w]

S_TypeError == <<"T","y","p","e","E","r","r","o","r">>

\* Mutant of Lookup: a dot-path missing for the language is looked up in the
\* default language's global tree, as a key object's text is.
Lookup_DefaultFallback(key, language, globalData, specificData) ==
    IF key.tag = "object" THEN Localize(key, language)
    ELSE LET keys == Split(key.s)
             fromPage == Reduce(keys, Get(specificData, language))
             fromGlobal == Reduce(keys, Get(globalData, language))
         IN  IF Truthy(fromPage) THEN fromPage
             ELSE IF Truthy(fromGlobal) THEN fromGlobal
             ELSE Reduce(keys, Get(globalData, DEFAULT_LANGUAGE))

\* The translation found before interpolation; Undef when the dot-path is missing.
Lookup(key, language, globalData, specificData) ==
    IF key.tag = "object" THEN Localize(key, language)
    ELSE LET keys == Split(key.s)
             fromPage == Reduce(keys, Get(specificData, language))
         IN  IF Truthy(fromPage) THEN fromPage
             ELSE Reduce(keys, Get(globalData, language))

\* return <string>(translation || key)
FinalResult(translation, key) == Or(translation, key)

getTranslation(key, variables, language, globalData, specificData) ==
    LET found == Lookup(key, language, globalData, specificData)
    IN  IF key.tag # "object" /\ ~Truthy(found)
        THEN Returned(key, 1)
        ELSE LET acc == Interpolate([thrown |-> FALSE, translation |-> found],
                                    variables, language, 1)
             IN  IF acc.thrown THEN Thrown(S_TypeError, 0)
                 ELSE Returned(FinalResult(acc.translation, key), 0)

(***************************************************************************)
(* Inputs the operations are called with                                   *)
(***************************************************************************)
K_a == <<"a">>

K_b == <<"b">>

K_ab == <<"a",".","b">>

K_navbar == <<"n","a","v","b","a","r">>

K_title == <<"t","i","t","l","e">>

K_navbar_title == K_navbar \o <<".">> \o K_title

\* { "a": "H", "navbar": { "title": "Welcome" } }
TreeH == Obj(<<P(K_a, Str(<<"H">>)),
               P(K_navbar, Obj(<<P(K_title, Str(<<"W","e","l","c","o","m","e">>))>>))>>)

\* The README's fr.json shape: { "navbar.title": "Bienvenue" }
TreeFlat == Obj(<<P(K_navbar_title, Str(<<"B","i","e","n","v","e","n","u","e">>))>>)

\* Trees handed to loadTranslation as data.
DataTrees == {TreeH, TreeFlat}

\* A JSON file that holds a string where a tree is expected.
MalformedModule == Obj(<<P(S_default, Str(<<"o","o","p","s">>))>>)

\* What import(path) can resolve to: a module whose own exports are the tree, or
\* a module with a default export (a JSON file), here a malformed one.
Modules == {TreeH, MalformedModule}

\* The path is opaque; it only reaches import() and the log lines.
Paths == {<<"/","t",".","j","s","o","n">>}

\* Languages loadTranslation is called with.
LoadLanguages == {EN, FA}

\* { en: { "a": "P" } }
PageP == Obj(<<P(EN, Obj(<<P(K_a, Str(<<"P">>))>>))>>)

\* { fa: { "navbar": { "title": "Q" } } }
PageQ == Obj(<<P(FA, Obj(<<P(K_navbar, Obj(<<P(K_title, Str(<<"Q">>))>>))>>))>>)

PageTrees == {EmptyObj, PageP, PageQ}

\* Keys and variables the t$ function is called with in Spec.
CallKeys == {Str(K_a), Str(K_navbar_title)}

CallVariables == {EmptyObj}

\* The most loadTranslation calls suspended at their import() at one time.
MaxPending == 2

(***************************************************************************)
(* The stores                                                              *)
(***************************************************************************)
VARIABLES
    activeLanguage,            \* writable(DEFAULT_LANGUAGE)
    globalTranslationsStore,   \* writable({})
    pageTranslationsStore,     \* writable({})
    tFn,                       \* the value t$ holds: the closure's bound values
    pending,                   \* loadTranslation calls suspended at await import(), in call order
    last,                      \* the step just taken and its arguments
    delivered,                 \* the functions t$ handed its subscriber during that step
    promise,                   \* how the promise of the loadTranslation that just finished settled
    result,                    \* what the t$ function just returned or threw
    built                      \* the functions a reactiveTranslate store ran its builder with during that step

vars == <<activeLanguage, globalTranslationsStore, pageTranslationsStore, tFn,
          pending, last, delivered, promise, result, built>>

\* The closure t$ computes: getTranslation bound to $language, $globalData, $pageData.
Bind(language, globalData, pageData) ==
    [language |-> language, globalData |-> globalData, pageData |-> pageData]

\* Calling the function t$ holds.
CallT(fn, key, variables) ==
    getTranslation(key, variables, fn.language, fn.globalData, fn.pageData)

\* svelte's safe_not_equal on language codes: a writable of a primitive notifies
\* only when the value changes.  (A store of objects or functions always notifies.)
LanguageChanged(old, new) == old # new

NoResult == [kind |-> "none", value |-> Undef, warnings |-> 0]

\* The keys the builder of the README's tabs example translates, one per item.
BuilderKeys == <<Str(K_a), Str(K_navbar_title)>>

\* The builder handed to reactiveTranslate: (t) => [{ title: t(k1) }, { title: t(k2) }].
Builder(t) == [i \in 1..Len(BuilderKeys) |-> CallT(t, BuilderKeys[i], EmptyObj).value]

\* Mutant of ReactiveTranslate: the builder is run again for every item it returns.
ReactiveTranslate_PerItem(deliveries) ==
    [i \in 1..(Len(deliveries) * Len(BuilderKeys)) |->
        deliveries[((i - 1) \div Len(BuilderKeys)) + 1]]

\* derived(t$, ($t) => translateFn($t)) while subscribed: the builder runs once
\* for every function t$ delivers, with that function.  The result lists the
\* function of each call; the store then holds Builder of the last one.
ReactiveTranslate(deliveries) == [i \in 1..Len(deliveries) |-> deliveries[i]]

\* A record of the step just taken.  variables is set by a call of t$; pos and
\* overtakenBy by the completion of a suspended load (its place in call order, and
\* the data merged by a load of the same language that was called after it and
\* completed before it).
Step(op, language, data) ==
    [op |-> op, language |-> language, data |-> data, variables |-> Undef,
     pos |-> 0, overtakenBy |-> Undef]

Init ==
    /\ activeLanguage = DEFAULT_LANGUAGE
    /\ globalTranslationsStore = EmptyObj
    /\ pageTranslationsStore = EmptyObj
    /\ tFn = Bind(DEFAULT_LANGUAGE, EmptyObj, EmptyObj)
    /\ pending = <<>>
    /\ last = Step("init", <<>>, Undef)
    /\ delivered = <<Bind(DEFAULT_LANGUAGE, EmptyObj, EmptyObj)>>
    /\ built = ReactiveTranslate(delivered)
    /\ promise = "none"
    /\ result = NoResult

(***************************************************************************)
(* loadTranslation                                                         *)
(***************************************************************************)
\* Mutant of MergeGlobal: the spread of currentData is forgotten.
MergeGlobal_Replace(currentData, language, data) == Obj(<<P(language, data)>>)

\* Mutant of MergeGlobal: an entry already present is kept (first write wins).
MergeGlobal_KeepExisting(currentData, language, data) ==
    IF HasOwn(currentData, language) THEN currentData
    ELSE ObjSet(currentData, language, data)

\* (currentData) => ({ ...currentData, [language]: data })
MergeGlobal(currentData, language, data) == ObjSet(currentData, language, data)

\* data.default || data
ModuleData(module) == Or(Get(module, S_default), module)

\* Mutant of Activate: a load does not override a language chosen with
\* setActiveLanguage; it activates its language only over the default one.
Activate_OnlyOverDefault(current, language) ==
    IF current = DEFAULT_LANGUAGE THEN language ELSE current

\* The language activeLanguage.set(language) leaves after a successful load.
Activate(current, language) == language

\* Mutant of LoadDeliveries: t$ recomputes from the tree as it was before the merge.
LoadDeliveries_Stale(old, language, merged, pageData) ==
    <<Bind(old, globalTranslationsStore, pageData)>> \o
    (IF LanguageChanged(old, language)
     THEN <<Bind(language, merged, pageData)>> ELSE <<>>)

\* What the subscriber of t$ receives while a successful load runs: one function
\* after globalTranslationsStore.update, one more after activeLanguage.set when
\* that changes the language.
LoadDeliveries(old, language, merged, pageData) ==
    <<Bind(old, merged, pageData)>> \o
    (IF LanguageChanged(old, Activate(old, language))
     THEN <<Bind(Activate(old, language), merged, pageData)>> ELSE <<>>)

\* The try block from the store update on: merge, then activate.
MergeAndActivate(language, data) ==
    LET merged == MergeGlobal(globalTranslationsStore, language, data)
    IN  /\ globalTranslationsStore' = merged
        /\ activeLanguage' = Activate(activeLanguage, language)
        /\ delivered' = LoadDeliveries(activeLanguage, language, merged, pageTranslationsStore)
        /\ built' = ReactiveTranslate(delivered')
        /\ tFn' = Bind(Activate(activeLanguage, language), merged, pageTranslationsStore)
        /\ promise' = "fulfilled"
        /\ result' = NoResult
        /\ UNCHANGED pageTranslationsStore

\* loadTranslation(language, data) with a tree: runs to its end without suspending.
LoadData(language, data) ==
    /\ MergeAndActivate(language, data)
    /\ last' = Step("loadData", language, data)
    /\ UNCHANGED pending

\* loadTranslation(language, path): runs up to await import(path).
LoadPath(language, path) ==
    /\ Len(pending) < MaxPending
    /\ pending' = Append(pending, [language |-> language, path |-> path,
                                   overtakenBy |-> Undef])
    /\ last' = Step("loadPath", language, Str(path))
    /\ delivered' = <<>>
    /\ built' = ReactiveTranslate(delivered')
    /\ promise' = "none"
    /\ result' = NoResult
    /\ UNCHANGED <<activeLanguage, globalTranslationsStore, pageTranslationsStore, tFn>>

Remove(seq, i) == SubSeq(seq, 1, i - 1) \o SubSeq(seq, i + 1, Len(seq))

\* The calls still suspended once the i-th has merged data: those of the same
\* language called before it are marked as overtaken.
Overtake(seq, i, data) ==
    Remove([j \in 1..Len(seq) |->
               IF j < i /\ seq[j].language = seq[i].language
               THEN [seq[j] EXCEPT !.overtakenBy = data] ELSE seq[j]], i)

\* import() of the i-th suspended call resolved to module.
ImportResolved(i, module) ==
    /\ i \in 1..Len(pending)
    /\ MergeAndActivate(pending[i].language, ModuleData(module))
    /\ last' = [Step("resolved", pending[i].language, ModuleData(module))
                   EXCEPT !.pos = i, !.overtakenBy = pending[i].overtakenBy]
    /\ pending' = Overtake(pending, i, ModuleData(module))

\* Mutant of ImportRejected: activeLanguage.set(language) placed after the
\* try/catch, so that it also runs when the import failed.
ImportRejected_Activates(i) ==
    /\ i \in 1..Len(pending)
    /\ last' = [Step("rejected", pending[i].language, Undef) EXCEPT !.pos = i]
    /\ pending' = Remove(pending, i)
    /\ activeLanguage' = pending[i].language
    /\ tFn' = Bind(pending[i].language, globalTranslationsStore, pageTranslationsStore)
    /\ delivered' = IF LanguageChanged(activeLanguage, pending[i].language)
                    THEN <<tFn'>> ELSE <<>>
    /\ built' = ReactiveTranslate(delivered')
    /\ promise' = "fulfilled"
    /\ result' = NoResult
    /\ UNCHANGED <<globalTranslationsStore, pageTranslationsStore>>

\* import() of the i-th suspended call rejected: the catch block logs the error.
ImportRejected(i) ==
    /\ i \in 1..Len(pending)
    /\ last' = [Step("rejected", pending[i].language, Undef) EXCEPT !.pos = i]
    /\ pending' = Remove(pending, i)
    /\ delivered' = <<>>
    /\ built' = ReactiveTranslate(delivered')
    /\ promise' = "fulfilled"
    /\ result' = NoResult
    /\ UNCHANGED <<activeLanguage, globalTranslationsStore, pageTranslationsStore, tFn>>

(***************************************************************************)
(* setActiveLanguage, setPageSpecificTranslations, calling t$              *)
(***************************************************************************)
\* Mutant of setActiveLanguage: t$ is not recomputed when the language is set.
setActiveLanguage_Stale(lang) ==
    /\ activeLanguage' = lang
    /\ tFn' = tFn
    /\ delivered' = <<>>
    /\ built' = ReactiveTranslate(delivered')
    /\ last' = Step("setActiveLanguage", lang, Undef)
    /\ promise' = "none"
    /\ result' = NoResult
    /\ UNCHANGED <<globalTranslationsStore, pageTranslationsStore, pending>>

\* activeLanguage.set(lang): the store notifies t$, which recomputes and notifies
\* its own subscribers, only when lang differs from the value it holds.
setActiveLanguage(lang) ==
    /\ activeLanguage' = lang
    /\ tFn' = Bind(lang, globalTranslationsStore, pageTranslationsStore)
    /\ delivered' = IF LanguageChanged(activeLanguage, lang)
                    THEN <<Bind(lang, globalTranslationsStore, pageTranslationsStore)>>
                    ELSE <<>>
    /\ built' = ReactiveTranslate(delivered')
    /\ last' = Step("setActiveLanguage", lang, Undef)
    /\ promise' = "none"
    /\ result' = NoResult
    /\ UNCHANGED <<globalTranslationsStore, pageTranslationsStore, pending>>

\* { ...target, ...source }
RECURSIVE SpreadInto(_, _, _)
SpreadInto(target, source, i) ==
    IF i > Len(source.props) THEN target
    ELSE SpreadInto(ObjSet(target, source.props[i].k, source.props[i].v), source, i + 1)

\* Mutant of setPageSpecificTranslations: the data is merged into the page tree
\* with update(), as loadTranslation does for the global tree.
setPageSpecificTranslations_Merge(data) ==
    /\ pageTranslationsStore' = SpreadInto(pageTranslationsStore, data, 1)
    /\ tFn' = Bind(activeLanguage, globalTranslationsStore, pageTranslationsStore')
    /\ delivered' = <<tFn'>>
    /\ built' = ReactiveTranslate(delivered')
    /\ last' = Step("setPageSpecificTranslations", <<>>, data)
    /\ promise' = "none"
    /\ result' = NoResult
    /\ UNCHANGED <<activeLanguage, globalTranslationsStore, pending>>

\* pageTranslationsStore.set(data)
setPageSpecificTranslations(data) ==
    /\ pageTranslationsStore' = data
    /\ tFn' = Bind(activeLanguage, globalTranslationsStore, data)
    /\ delivered' = <<Bind(activeLanguage, globalTranslationsStore, data)>>
    /\ built' = ReactiveTranslate(delivered')
    /\ last' = Step("setPageSpecificTranslations", <<>>, data)
    /\ promise' = "none"
    /\ result' = NoResult
    /\ UNCHANGED <<activeLanguage, globalTranslationsStore, pending>>

\* Mutant of Translate: the resolved string is kept in the page tree, under the
\* language and the key, for later calls.
Translate_Caches(key, variables) ==
    /\ result' = CallT(tFn, key, variables)
    /\ last' = [Step("translate", tFn.language, key) EXCEPT !.variables = variables]
    /\ pageTranslationsStore' =
           IF key.tag = "string" /\ result'.kind = "return"
           THEN ObjSet(pageTranslationsStore, tFn.language,
                       Obj(<<P(key.s, result'.value)>>))
           ELSE pageTranslationsStore
    /\ tFn' = Bind(activeLanguage, globalTranslationsStore, pageTranslationsStore')
    /\ delivered' = <<>>
    /\ built' = ReactiveTranslate(delivered')
    /\ promise' = "none"
    /\ UNCHANGED <<activeLanguage, globalTranslationsStore, pending>>

\* A component calls $t$(key, variables).
Translate(key, variables) ==
    /\ result' = CallT(tFn, key, variables)
    /\ last' = [Step("translate", tFn.language, key) EXCEPT !.variables = variables]
    /\ delivered' = <<>>
    /\ built' = ReactiveTranslate(delivered')
    /\ promise' = "none"
    /\ UNCHANGED <<activeLanguage, globalTranslationsStore, pageTranslationsStore,
                   tFn, pending>>

Next ==
    \/ \E language \in LoadLanguages, data \in DataTrees : LoadData(language, data)
    \/ \E language \in LoadLanguages, path \in Paths : LoadPath(language, path)
    \/ \E i \in 1..MaxPending, module \in Modules : ImportResolved(i, module)
    \/ \E i \in 1..MaxPending : ImportRejected(i)
    \/ \E lang \in Languages : setActiveLanguage(lang)
    \/ \E data \in PageTrees : setPageSpecificTranslations(data)
    \/ \E key \in CallKeys, variables \in CallVariables : Translate(key, variables)

Spec == Init /\ [][Next]_vars

(***************************************************************************)
(* The resolver on its own: getTranslation over a wider range of trees,    *)
(* keys and variables.  Every initial state is one the stores reach by     *)
(* loadTranslation(language, data), setPageSpecificTranslations and        *)
(* setActiveLanguage.                                                      *)
(***************************************************************************)
K_e == <<"e">>

K_g == <<"g">>

K_h == <<"h">>

K_m == <<"m">>

K_n == <<"n">>

K_nb == <<"n",".","b">>

K_token == <<"{","{","n","}","}">>

K_a_length == K_a \o <<".">> \o S_length

S_Hi == <<"H","i"," ">>

K_w == <<"w">>

\* { a: "G", n: { b: "N" }, e: "", g: "Hi {{n}}", h: "{{n}}", w: "{{m}}" }
GT1 == Obj(<<P(K_a, Str(<<"G">>)),
             P(K_n, Obj(<<P(K_b, Str(<<"N">>))>>)),
             P(K_e, Str(<<>>)),
             P(K_g, Str(S_Hi \o K_token)),
             P(K_h, Str(K_token)),
             P(K_w, Str(Token(K_m)))>>)

\* { "n.b": "F", e: "E", a: { b: "X" } }
GT2 == Obj(<<P(K_nb, Str(<<"F">>)),
             P(K_e, Str(<<"E">>)),
             P(K_a, Obj(<<P(K_b, Str(<<"X">>))>>))>>)

\* { a: "P", e: "", n: { b: "" } }
PT1 == Obj(<<P(K_a, Str(<<"P">>)),
             P(K_e, Str(<<>>)),
             P(K_n, Obj(<<P(K_b, Str(<<>>))>>))>>)

\* { a: { b: "Y" }, g: "Page {{n}}" }
PT2 == Obj(<<P(K_a, Obj(<<P(K_b, Str(<<"Y">>))>>)),
             P(K_g, Str(<<"P","a","g","e"," ">> \o K_token))>>)

ResolverGlobals ==
    {EmptyObj,
     Obj(<<P(EN, GT1)>>), Obj(<<P(EN, GT2)>>), Obj(<<P(FA, GT1)>>),
     Obj(<<P(EN, GT1), P(FA, GT2)>>), Obj(<<P(FA, GT1), P(EN, GT2)>>)}

ResolverPages ==
    {EmptyObj,
     Obj(<<P(EN, PT1)>>), Obj(<<P(EN, PT2)>>), Obj(<<P(FA, PT1)>>),
     Obj(<<P(EN, PT1), P(FA, PT2)>>)}

S_Hello == <<"H","e","l","l","o">>

S_Salam == <<"S","a","l","a","m">>

S_Salut == <<"S","a","l","u","t">>

\* Per-language objects given as the key.
KeyObjects ==
    {EmptyObj,
     Obj(<<P(EN, Str(S_Hello))>>),
     Obj(<<P(FA, Str(S_Salam)), P(FR, Str(S_Salut))>>),
     Obj(<<P(FR, Str(S_Salut)), P(FA, Str(S_Salam))>>),
     Obj(<<P(FA, Str(<<>>)), P(EN, Str(S_Hello))>>),
     Obj(<<P(EN, Str(<<>>)), P(FA, Str(S_Salam))>>),
     Obj(<<P(FA, Str(S_Hi \o K_token))>>)}

\* Dot-path keys.
KeyPaths ==
    {Str(K_a), Str(K_ab), Str(K_nb), Str(K_n), Str(K_e), Str(K_g), Str(K_h),
     Str(K_w), Str(K_m), Str(K_token), Str(S_constructor), Str(K_a_length), Str(<<>>)}

ResolverKeys == KeyPaths \cup KeyObjects

S_Sam == <<"S","a","m">>

ResolverVariables ==
    {EmptyObj,
     Obj(<<P(K_n, Str(S_Sam))>>),
     Obj(<<P(K_n, Str(<<>>))>>),
     Obj(<<P(K_n, Obj(<<P(EN, Str(<<"J","o","h","n">>)), P(FA, Str(<<"J","a","n">>))>>))>>),
     Obj(<<P(K_n, Num(42))>>),
     Obj(<<P(K_n, Null)>>),
     Obj(<<P(K_m, Str(S_Sam)), P(K_n, Undef)>>),
     Obj(<<P(K_m, Str(K_token)), P(K_n, Str(S_Sam))>>),
     Obj(<<P(K_n, Str(S_Sam)), P(K_m, Str(K_token))>>),
     Obj(<<P(K_n, Str(<<"$", "&">>))>>)}

InitResolver ==
    /\ activeLanguage \in Languages
    /\ globalTranslationsStore \in ResolverGlobals
    /\ pageTranslationsStore \in ResolverPages
    /\ tFn = Bind(activeLanguage, globalTranslationsStore, pageTranslationsStore)
    /\ pending = <<>>
    /\ last = Step("init", <<>>, Undef)
    /\ delivered = <<tFn>>
    /\ built = ReactiveTranslate(delivered)
    /\ promise = "none"
    /\ result = NoResult

NextResolver ==
    \E key \in ResolverKeys, variables \in ResolverVariables : Translate(key, variables)

SpecResolver == InitResolver /\ [][NextResolver]_vars

(***************************************************************************)
(* Properties                                                              *)
(***************************************************************************)
\* store[language], or undefined when the store has no entry for it.
Entry(store, language) ==
    IF HasOwn(store, language) THEN GetOwn(store, language) ELSE Undef

\* What a tree holds at a path of segments: own properties only, Undef when the
\* path leaves the tree.
RECURSIVE OwnAt(_, _)
OwnAt(node, segs) ==
    IF segs = <<>> THEN node
    ELSE IF node.tag = "object" /\ HasOwn(node, Head(segs))
         THEN OwnAt(GetOwn(node, Head(segs)), Tail(segs))
    ELSE Undef

\* The store's three values, as t$ would bind them.
Current == Bind(activeLanguage, globalTranslationsStore, pageTranslationsStore)

IsLoadSuccess(step) == step.op \in {"resolved", "loadData"}

IsPathCall(step) == step.op = "translate" /\ step.data.tag = "string"

\* C1: a loadTranslation whose import() rejects leaves the active language, the
\* global tree and the page tree as they were when the rejection was handled,
\* and its promise fulfills.
C1_RejectedLoadKeepsState ==
    [][last'.op = "rejected" =>
          /\ activeLanguage' = activeLanguage
          /\ globalTranslationsStore' = globalTranslationsStore
          /\ pageTranslationsStore' = pageTranslationsStore
          /\ promise' = "fulfilled"]_vars

\* C1 witness: a rejection was handled for a language that is not the active
\* one, with translations already loaded.
C1_Witness ==
    /\ last.op = "rejected"
    /\ promise = "fulfilled"
    /\ last.language # activeLanguage
    /\ globalTranslationsStore # EmptyObj

\* C2: a load completing for language B changes no other language's entry of
\* the global tree, whatever other loads are in flight; a step that completes no
\* load changes no entry at all.
C2_MergeOnlyOwnLanguage ==
    [][\A A \in Languages :
          (A # last'.language \/ ~IsLoadSuccess(last'))
              => Entry(globalTranslationsStore', A) = Entry(globalTranslationsStore, A)]_vars

\* C2 witness: a path load completed while a load of another language was still
\* suspended and another language's entry was present.
C2_Witness ==
    /\ last.op = "resolved"
    /\ \E j \in 1..Len(pending) : pending[j].language # last.language
    /\ \E A \in Languages : A # last.language /\ HasOwn(globalTranslationsStore, A)

\* C3: right after a load completes successfully, the global tree's entry for its
\* language is the data that load merged and the active language is its language,
\* also when a load of the same language that was called later completed earlier.
C3_LastCompletionWins ==
    IsLoadSuccess(last) =>
        /\ Entry(globalTranslationsStore, last.language) = last.data
        /\ activeLanguage = last.language

\* C3 witness: the load that completed last was called first: a later call for
\* the same language had already merged different data.
C3_Witness ==
    /\ last.op = "resolved"
    /\ last.overtakenBy # Undef
    /\ last.overtakenBy # last.data
    /\ Entry(globalTranslationsStore, last.language) = last.data

\* C4 as stated: every function delivered to the subscriber of t$ is bound to the
\* store's state before or after the whole operation.
C4_NoTornDelivery ==
    [][\A i \in 1..Len(delivered') : delivered'[i] \in {Current, Current'}]_vars

\* C4 amended: every function delivered is bound to the stores as they are right
\* after one store write: the global tree and page tree after the operation, and
\* the language before or after it; the last one delivered is bound to the state
\* after the operation.
C4_DeliveredAfterEachWrite ==
    [][\A i \in 1..Len(delivered') :
          /\ delivered'[i].globalData = globalTranslationsStore'
          /\ delivered'[i].pageData = pageTranslationsStore'
          /\ delivered'[i].language \in {activeLanguage, activeLanguage'}
          /\ (i = Len(delivered') => delivered'[i] = Current')]_vars

\* C4 witness: a successful load delivered two functions, the first bound to the
\* merged tree and the language that was active before.
C4_Witness ==
    /\ IsLoadSuccess(last)
    /\ Len(delivered) = 2
    /\ delivered[1].language # last.language
    /\ Entry(delivered[1].globalData, last.language) = last.data
    /\ delivered[2] = Current

\* C5 as stated: the resolver always returns a string and never throws.
C5_ResolverTotal ==
    last.op = "translate" => result.kind = "return" /\ result.value.tag = "string"

\* The segments of a dot-path, for stating where a leaf is.
Segments(path) == SplitFrom(path, 1, <<>>)

\* What the language's entry of a store holds at the dot-path of the call.
AtPath(store, language, key) == OwnAt(Entry(store, language), Segments(key.s))

IsString(v) == v.tag = "string"

IsNonEmptyString(v) == v.tag = "string" /\ v.s # <<>>

\* C6 as stated: a string leaf at path P of the language's global tree, the empty
\* string included, is what resolving P with no variables and an empty page tree
\* returns.
C6_LeafReturned ==
    (/\ IsPathCall(last)
     /\ last.variables = EmptyObj
     /\ tFn.pageData = EmptyObj
     /\ IsString(AtPath(tFn.globalData, tFn.language, last.data)))
    => /\ result.kind = "return"
       /\ result.value = AtPath(tFn.globalData, tFn.language, last.data)

\* C6 amended: a non-empty string leaf at path P of the language's global tree is
\* what resolving P with no variables and an empty page tree returns.
C6_NonEmptyLeafReturned ==
    (/\ IsPathCall(last)
     /\ last.variables = EmptyObj
     /\ tFn.pageData = EmptyObj
     /\ IsNonEmptyString(AtPath(tFn.globalData, tFn.language, last.data)))
    => /\ result.kind = "return"
       /\ result.value = AtPath(tFn.globalData, tFn.language, last.data)
       /\ result.warnings = 0

\* C6 witness: the nested leaf n.b was resolved against an empty page tree.
C6_Witness ==
    /\ IsPathCall(last)
    /\ last.data = Str(K_nb)
    /\ last.variables = EmptyObj
    /\ tFn.pageData = EmptyObj
    /\ AtPath(tFn.globalData, tFn.language, last.data) = Str(<<"N">>)
    /\ result = Returned(Str(<<"N">>), 0)

\* C7 as stated: a non-empty string leaf at P in the page tree is the result;
\* in every other case (nothing, an empty string or an interior node there) the
\* result is the one the global tree alone gives.
C7_PageElseGlobal ==
    (IsPathCall(last) /\ last.variables = EmptyObj)
    => IF IsNonEmptyString(AtPath(tFn.pageData, tFn.language, last.data))
       THEN result = Returned(AtPath(tFn.pageData, tFn.language, last.data), 0)
       ELSE result = getTranslation(last.data, EmptyObj, tFn.language,
                                    tFn.globalData, EmptyObj)

\* C8 as stated: a dot-path absent from both trees resolves to the key itself,
\* not interpolated, with exactly one warning, whatever the variables.
C8_MissingKeyReturnsKey ==
    (/\ IsPathCall(last)
     /\ AtPath(tFn.pageData, tFn.language, last.data) = Undef
     /\ AtPath(tFn.globalData, tFn.language, last.data) = Undef)
    => result = Returned(last.data, 1)

\* C9 as stated: with { "navbar.title": "Bienvenue" } loaded for the active
\* language and no nested navbar.title anywhere, t$("navbar.title") is "Bienvenue".
C9_FlatKeyResolves ==
    (/\ IsPathCall(last)
     /\ last.data = Str(K_navbar_title)
     /\ Entry(tFn.globalData, tFn.language) = TreeFlat
     /\ AtPath(tFn.pageData, tFn.language, last.data) = Undef)
    => result.value = GetOwn(TreeFlat, K_navbar_title)

\* The fallback chain of C10, read off the object: key[language] if present and
\* non-empty, else key[en] likewise, else the first value, else "".
PickByLanguage(key, language) ==
    IF HasOwn(key, language) /\ IsNonEmptyString(GetOwn(key, language))
    THEN GetOwn(key, language)
    ELSE IF HasOwn(key, EN) /\ IsNonEmptyString(GetOwn(key, EN))
         THEN GetOwn(key, EN)
    ELSE IF key.props # <<>> THEN key.props[1].v
    ELSE Str(<<>>)

\* C10 as stated: a per-language key object resolves, before interpolation, along
\* that chain, and the empty object resolves to the empty string.
C10_KeyObjectFallback ==
    (last.op = "translate" /\ last.data.tag = "object" /\ last.variables = EmptyObj)
    => result = Returned(PickByLanguage(last.data, tFn.language), 0)

\* The translation found before interpolation, for the call just made.
Found(step, fn) == Lookup(step.data, fn.language, fn.globalData, fn.pageData)

\* The variable of the mapping whose token {{name}} stands at position i of s;
\* 0 when none does.
TokenAt(s, variables, i) ==
    IF \E j \in 1..Len(variables.props) : MatchAt(s, Token(variables.props[j].k), i)
    THEN CHOOSE j \in 1..Len(variables.props) : MatchAt(s, Token(variables.props[j].k), i)
    ELSE 0

\* Every token of the translation replaced by its own variable's value, in one
\* pass: inserted text is never scanned again, so the order of the mapping does
\* not matter.
RECURSIVE ReplaceIndependently(_, _, _, _)
ReplaceIndependently(s, variables, language, i) ==
    IF i > Len(s) THEN <<>>
    ELSE IF TokenAt(s, variables, i) # 0
         THEN LET v == variables.props[TokenAt(s, variables, i)]
              IN  ToStringJS(LocalizedValue(v.v, language))
                  \o ReplaceIndependently(s, variables, language, i + Len(Token(v.k)))
    ELSE <<s[i]>> \o ReplaceIndependently(s, variables, language, i + 1)

\* C11 as stated: interpolation replaces every token {{n}} of the translation by
\* n's substitution value, each name independently of the others: inserted text
\* is not rewritten by another variable, so the order of the mapping is immaterial.
C11_IndependentReplacement ==
    (/\ last.op = "translate"
     /\ IsNonEmptyString(Found(last, tFn))
     /\ ReplaceIndependently(Found(last, tFn).s, last.variables, tFn.language, 1) # <<>>)
    => result = Returned(Str(ReplaceIndependently(Found(last, tFn).s, last.variables,
                                                  tFn.language, 1)), 0)

\* A translation tree: an object whose values are strings or trees.
RECURSIVE IsTree(_)
IsTree(v) ==
    /\ v.tag = "object"
    /\ \A j \in 1..Len(v.props) : v.props[j].v.tag = "string" \/ IsTree(v.props[j].v)

\* C12 as stated: when the import of a path load resolves to a payload that is
\* not a translation tree, nothing is merged into the global tree, the active
\* language stays as it was, and the promise fulfills.
C12_MalformedPayloadIgnored ==
    [][(last'.op = "resolved" /\ ~IsTree(last'.data))
       => /\ globalTranslationsStore' = globalTranslationsStore
          /\ activeLanguage' = activeLanguage
          /\ promise' = "fulfilled"]_vars

\* C13 as stated: the function t$ holds is always bound to the current values of
\* the three stores, and every call of setActiveLanguage, also one that passes
\* the language already active, hands the subscribers a recomputed function.
C13_EverySetNotifies ==
    /\ tFn = Current
    /\ last.op = "setActiveLanguage" => delivered = <<Current>>

\* C13, amended: the function t$ holds is bound to the current values of the
\* three stores after every step; a call of setActiveLanguage hands the
\* subscribers one recomputed function when it changes the active language and
\* none when it passes the language already active.
C13_FreshAndNotifiesOnChange ==
    [][/\ tFn' = Current'
       /\ last'.op = "setActiveLanguage"
          => delivered' = IF activeLanguage' # activeLanguage THEN <<Current'>> ELSE <<>>]_vars

\* setActiveLanguage("fa") was called while "fa" was active, over a loaded tree:
\* nothing was delivered and t$ still holds the current binding.
C13_Witness ==
    /\ last.op = "setActiveLanguage"
    /\ last.language = FA
    /\ delivered = <<>>
    /\ tFn = Current
    /\ globalTranslationsStore # EmptyObj

\* The store values after each store write of a step that found the language
\* old and left the stores at fn, in the order of the writes: a successful load
\* writes the global tree and then, when it differs, the language; the two
\* setters write one store, and setActiveLanguage only when the language differs.
Changes(step, old, fn) ==
    IF IsLoadSuccess(step)
    THEN <<Bind(old, fn.globalData, fn.pageData)>> \o
         (IF fn.language # old THEN <<fn>> ELSE <<>>)
    ELSE IF step.op = "setPageSpecificTranslations" THEN <<fn>>
    ELSE IF step.op = "setActiveLanguage" /\ fn.language # old THEN <<fn>>
    ELSE <<>>

\* C14: a store made by reactiveTranslate(builder) runs the builder exactly once
\* for each change of the active language, the global tree or the page tree,
\* each time with the translation function bound to the state right after that
\* change, however many items the builder returns.
C14_BuilderOncePerChange ==
    [][LET changes == Changes(last', activeLanguage, Current')
       IN  /\ Len(built') = Len(changes)
           /\ \A i \in 1..Len(changes) : built'[i] = changes[i]]_vars

\* A load completed and changed both the global tree and the active language:
\* the builder, which returns two items, ran twice, first with the function bound
\* to the merged tree and the previous language, then with the final one.
C14_Witness ==
    /\ last.op = "resolved"
    /\ Len(built) = 2
    /\ built[1].language # built[2].language
    /\ built[1].globalData = globalTranslationsStore
    /\ built[2] = Current
    /\ Len(Builder(built[2])) = 2

IsLoadStep(step) == step.op \in {"loadData", "loadPath", "resolved", "rejected"}

\* C15: setPageSpecificTranslations(data) makes the page tree exactly data (no
\* entry of the previous page tree survives) and leaves the global tree and the
\* active language alone; no step of a loadTranslation, whether it starts,
\* succeeds or fails, changes the page tree.
C15_PageTreeOnlyBySetter ==
    [][/\ last'.op = "setPageSpecificTranslations"
          => /\ pageTranslationsStore' = last'.data
             /\ globalTranslationsStore' = globalTranslationsStore
             /\ activeLanguage' = activeLanguage
       /\ IsLoadStep(last') => pageTranslationsStore' = pageTranslationsStore]_vars

\* A suspended load of "fa" completed while the page tree held only an "en"
\* entry: the page tree is still exactly that tree.
C15_Witness ==
    /\ last.op = "resolved"
    /\ last.language = FA
    /\ HasOwn(globalTranslationsStore, FA)
    /\ pageTranslationsStore = PageP
    /\ tFn.pageData = PageP

\* C16: a call of the t$ function changes none of the three stores, nor the
\* function t$ holds; hence a call with no variables that follows a call of the
\* same key with variables returns the stored leaf with its tokens in place, and
\* a call that repeats the arguments of the call before it returns what that
\* call returned.
C16_ResolveChangesNothing ==
    [][last'.op = "translate" =>
          /\ Current' = Current
          /\ tFn' = tFn
          /\ (/\ last.op = "translate"
              /\ last.data = last'.data
              /\ last.variables # EmptyObj
              /\ last'.variables = EmptyObj
              /\ IsPathCall(last')
              /\ AtPath(pageTranslationsStore, activeLanguage, last'.data) = Undef
              /\ IsNonEmptyString(AtPath(globalTranslationsStore, activeLanguage, last'.data)))
             => result' = Returned(AtPath(globalTranslationsStore, activeLanguage,
                                          last'.data), 0)
          /\ (/\ last.op = "translate"
              /\ last.data = last'.data
              /\ last.variables = last'.variables)
             => result' = result]_vars

\* The leaf "Hi {{n}}" was resolved with n = "Sam": the call returned "Hi Sam"
\* and the global tree still holds the leaf with its token.
C16_Witness ==
    /\ IsPathCall(last)
    /\ last.data = Str(K_g)
    /\ last.variables = Obj(<<P(K_n, Str(S_Sam))>>)
    /\ result = Returned(Str(S_Hi \o S_Sam), 0)
    /\ AtPath(globalTranslationsStore, activeLanguage, last.data) = Str(S_Hi \o K_token)
    /\ tFn = Current

\* The translation after the variables loop, for the call just made.
Interpolated(step, fn) ==
    Interpolate([thrown |-> FALSE, translation |-> Found(step, fn)],
                step.variables, fn.language, 1)

\* C17 as stated: when the dot-path lookup finds a non-empty string leaf, the
\* call returns that leaf after interpolation, for every variables mapping, and
\* never the key in its place.
C17_InterpolatedLeafReturned ==
    (/\ IsPathCall(last)
     /\ IsNonEmptyString(Found(last, tFn))
     /\ ~Interpolated(last, tFn).thrown)
    => result = Returned(Interpolated(last, tFn).translation, 0)

\* C18: at the start the active language is "en" and both trees are empty; a
\* load that completes successfully for L leaves L active, whatever was active
\* just before; setActiveLanguage leaves its argument active; every other step
\* (a load starting, a load failing, a page tree set, a call of t$) leaves the
\* active language as it was.
C18_LanguageChangesOnlyBy ==
    /\ activeLanguage = EN
    /\ globalTranslationsStore = EmptyObj
    /\ pageTranslationsStore = EmptyObj
    /\ [][/\ IsLoadSuccess(last') => activeLanguage' = last'.language
          /\ last'.op = "setActiveLanguage" => activeLanguage' = last'.language
          /\ ~(IsLoadSuccess(last') \/ last'.op = "setActiveLanguage")
             => activeLanguage' = activeLanguage]_vars

\* A suspended load completed while "fr" was active, a language only
\* setActiveLanguage can have activated: the load's language is active now, and
\* t$ delivered a function for each of the two writes.
C18_Witness ==
    /\ last.op = "resolved"
    /\ Len(delivered) = 2
    /\ delivered[1].language = FR
    /\ activeLanguage = last.language
    /\ activeLanguage # FR

\* A store with every entry but the language's removed.
OnlyLanguage(store, language) ==
    IF HasOwn(store, language) THEN Obj(<<P(language, GetOwn(store, language))>>)
    ELSE EmptyObj

PlainStringValues(variables) ==
    \A j \in 1..Len(variables.props) : IsString(variables.props[j].v)

\* C19: the result of resolving a dot-path key for language L with variables of
\* plain string values depends on the page tree's and the global tree's entry
\* for L only: it is the result the same call gives once every other language's
\* entry is removed from both stores.  In particular nothing is taken from the
\* default language's tree when L has no translation.
C19_IsolatedPerLanguage ==
    (IsPathCall(last) /\ PlainStringValues(last.variables))
    => result = getTranslation(last.data, last.variables, tFn.language,
                               OnlyLanguage(tFn.globalData, tFn.language),
                               OnlyLanguage(tFn.pageData, tFn.language))

\* The key "a" was resolved for "fa" while only the default language's tree
\* holds it: the call returned the key, with a warning, not the "en" leaf.
C19_Witness ==
    /\ IsPathCall(last)
    /\ last.data = Str(K_a)
    /\ tFn.language = FA
    /\ PlainStringValues(last.variables)
    /\ last.variables # EmptyObj
    /\ IsNonEmptyString(AtPath(tFn.globalData, DEFAULT_LANGUAGE, last.data))
    /\ AtPath(tFn.globalData, FA, last.data) = Undef
    /\ AtPath(tFn.pageData, FA, last.data) = Undef
    /\ result = Returned(last.data, 1)

=============================================================================
